---- MODULE Spec2Model ----
(***************************************************************************)
(* A model of src/Parareal.py: the explicit Runge-Kutta stepper            *)
(* (RungeKutta), the two propagators built on it (CoarseSolver,            *)
(* FineSolver) and the Parareal iteration (Parareal).                      *)
(*                                                                         *)
(* Numbers.  The program computes in IEEE doubles.  The model keeps what   *)
(* the program's control flow depends on: a finite range that overflows to *)
(* +inf / -inf, inf - inf = nan, 0 * inf = nan, nan propagating through    *)
(* every operation and failing every comparison.  Finite values are        *)
(* integers (a fixed-point double with unit resolution); a product with a  *)
(* fractional coefficient is rounded to the nearest integer, as a double   *)
(* product is rounded to the nearest double.                               *)
(***************************************************************************)
EXTENDS Integers, Sequences, FiniteSets, TLC

(***************************************************************************)
(* Bounds of the model.                                                    *)
(***************************************************************************)
\* largest finite magnitude of a number; beyond it a result is +inf or -inf
MaxFloat == 1000
\* largest number N of time slices drawn for a run
MaxN == 3
\* largest coarse / fine step count Ng, Nf drawn for a run
MaxSteps == 4
\* largest value os.cpu_count() returns
MaxCpu == 3
\* largest number of time steps of a stand-alone stepper call
MaxRKSteps == 2

(***************************************************************************)
(* IEEE special values, encoded outside the finite range.                  *)
(***************************************************************************)
PInf == MaxFloat + 1
NInf == -(MaxFloat + 1)
NaN == MaxFloat + 2

IsNaN(x) == x = NaN
IsInf(x) == x = PInf \/ x = NInf
IsFinite(x) == ~IsNaN(x) /\ ~IsInf(x)

\* an exact result brought back into the number format (overflow to +-inf)
Overflow(x) == IF x > MaxFloat THEN PInf ELSE IF x < -MaxFloat THEN NInf ELSE x

Abs(x) == IF x < 0 THEN -x ELSE x
Sign(x) == IF x > 0 THEN 1 ELSE IF x < 0 THEN -1 ELSE 0

\* x / y rounded to the nearest integer (y > 0)
Round(x, y) == IF x >= 0 THEN (x + y \div 2) \div y ELSE -(((-x) + y \div 2) \div y)

FNeg(x) == IF IsNaN(x) THEN NaN ELSE -x

FAdd(x, y) ==
    IF IsNaN(x) \/ IsNaN(y) THEN NaN
    ELSE IF IsInf(x) /\ IsInf(y) THEN (IF x = y THEN x ELSE NaN)
    ELSE IF IsInf(x) THEN x
    ELSE IF IsInf(y) THEN y
    ELSE Overflow(x + y)

FSub(x, y) == FAdd(x, FNeg(y))

\* product of two numbers
FMul(x, y) ==
    IF IsNaN(x) \/ IsNaN(y) THEN NaN
    ELSE IF IsInf(x) \/ IsInf(y)
         THEN (IF Sign(x) * Sign(y) = 0 THEN NaN
               ELSE IF Sign(x) * Sign(y) > 0 THEN PInf ELSE NInf)
    ELSE Overflow(x * y)

\* product of a finite coefficient q = <<num, den>> (den > 0) and a number
FMulQ(q, x) ==
    IF IsNaN(x) THEN NaN
    ELSE IF IsInf(x)
         THEN (IF Sign(q[1]) * Sign(x) = 0 THEN NaN
               ELSE IF Sign(q[1]) * Sign(x) > 0 THEN PInf ELSE NInf)
    ELSE Overflow(Round(q[1] * x, q[2]))

\* x < y as the program's comparison: False when either side is nan
FLess(x, y) == ~IsNaN(x) /\ ~IsNaN(y) /\ x < y

(***************************************************************************)
(* Finite rationals <<num, den>>, den > 0: step sizes, times, tableau      *)
(* coefficients.                                                           *)
(***************************************************************************)
Q(num, den) == <<num, den>>
QAdd(q, r) == <<q[1] * r[2] + r[1] * q[2], q[2] * r[2]>>
QSub(q, r) == <<q[1] * r[2] - r[1] * q[2], q[2] * r[2]>>
QMul(q, r) == <<q[1] * r[1], q[2] * r[2]>>
QInt(m) == <<m, 1>>
\* int(q / r) for q >= 0, r > 0
QDivInt(q, r) == (q[1] * r[2]) \div (q[2] * r[1])

(***************************************************************************)
(* State vectors: sequences of numbers of the system's dimension.          *)
(***************************************************************************)
\* a vector as a tuple of its evaluated components
Vec(x) == SubSeq(x, 1, Len(x))
VAdd(x, y) == Vec([j \in 1..Len(x) |-> FAdd(x[j], y[j])])
VSub(x, y) == Vec([j \in 1..Len(x) |-> FSub(x[j], y[j])])
VScale(q, x) == Vec([j \in 1..Len(x) |-> FMulQ(q, x[j])])
VZeros(dim) == Vec([j \in 1..dim |-> 0])
VHasNaN(x) == \E j \in 1..Len(x) : IsNaN(x[j])

(***************************************************************************)
(* The Butcher tableaus of RungeKutta.  A row of a is written up to its    *)
(* last non-zero entry and padded with the zeros the source spells out.    *)
(***************************************************************************)
Z == Q(0, 1)
One == Q(1, 1)
Half == Q(1, 2)
Pad(row, S) == [j \in 1..S |-> IF j <= Len(row) THEN row[j] ELSE Z]
PadRows(rows, S) == [r \in 1..S |-> Pad(rows[r], S)]

\* s = np.sqrt(21), to two decimals: SqrtNum / SqrtDen
SqrtNum == 458
SqrtDen == 100
\* (m0 + m1*s) / den
QS(m0, m1, den) == Q(m0 * SqrtDen + m1 * SqrtNum, den * SqrtDen)

MethodNames == {"RK1", "RK2", "RK3", "RK4", "RK5", "RK6", "RK7", "RK8"}

TableauRK1 == [S |-> 1, a |-> <<<<Z>>>>, b |-> <<One>>, c |-> <<Z>>]

TableauRK2 ==
    [S |-> 2,
     a |-> PadRows(<< <<>>, <<Half>> >>, 2),
     b |-> <<Z, One>>,
     c |-> <<Z, Half>>]

TableauRK3 ==
    [S |-> 3,
     a |-> PadRows(<< <<>>, <<Half>>, <<Q(-1, 1), Q(2, 1)>> >>, 3),
     b |-> <<Q(1, 6), Q(2, 3), Q(1, 6)>>,
     c |-> <<Z, Half, One>>]

TableauRK4 ==
    [S |-> 4,
     a |-> PadRows(<< <<>>, <<Half>>, <<Z, Half>>, <<Z, Z, One>> >>, 4),
     b |-> <<Q(1, 6), Q(1, 3), Q(1, 3), Q(1, 6)>>,
     c |-> <<Z, Half, Half, One>>]

TableauRK5 ==
    [S |-> 6,
     a |-> PadRows(<< <<>>,
                      <<Q(1, 4)>>,
                      <<Q(1, 8), Q(1, 8)>>,
                      <<Z, Z, Half>>,
                      <<Q(3, 16), Q(-3, 8), Q(3, 8), Q(9, 16)>>,
                      <<Q(-3, 7), Q(8, 7), Q(6, 7), Q(-12, 7), Q(8, 7)>> >>, 6),
     b |-> <<Q(7, 90), Q(0, 90), Q(32, 90), Q(12, 90), Q(32, 90), Q(7, 90)>>,
     c |-> <<Z, Q(1, 4), Q(1, 4), Half, Q(3, 4), One>>]

TableauRK6 ==
    [S |-> 7,
     a |-> PadRows(<< <<>>,
                      <<Q(1, 3)>>,
                      <<Z, Q(2, 3)>>,
                      <<Q(1, 12), Q(1, 3), Q(-1, 12)>>,
                      <<Q(25, 48), Q(-55, 24), Q(35, 48), Q(15, 8)>>,
                      <<Q(3, 20), Q(-11, 24), Q(-1, 8), Q(1, 2), Q(1, 10)>>,
                      <<Q(-261, 260), Q(33, 13), Q(43, 156), Q(-118, 39),
                        Q(32, 195), Q(80, 39)>> >>, 7),
     b |-> <<Q(13, 200), Z, Q(11, 40), Q(11, 40), Q(4, 25), Q(4, 25), Q(13, 200)>>,
     c |-> <<Z, Q(1, 3), Q(2, 3), Q(1, 3), Q(5, 6), Q(1, 6), One>>]

TableauRK7 ==
    [S |-> 9,
     a |-> PadRows(<< <<>>,
                      <<Q(1, 6)>>,
                      <<Z, Q(1, 3)>>,
                      <<Q(1, 8), Z, Q(3, 8)>>,
                      <<Q(148, 1331), Z, Q(150, 1331), Q(-56, 1331)>>,
                      <<Q(-404, 243), Z, Q(-170, 27), Q(4024, 1701), Q(10648, 1701)>>,
                      <<Q(2466, 2401), Z, Q(1242, 343), Q(-19176, 16807),
                        Q(-51909, 16807), Q(1053, 2401)>>,
                      <<Q(5, 154), Z, Z, Q(96, 539), Q(-1815, 20384),
                        Q(-405, 2464), Q(49, 1144)>>,
                      <<Q(-113, 32), Z, Q(-195, 22), Q(32, 7), Q(29403, 3584),
                        Q(-729, 512), Q(1029, 1408), Q(21, 16)>> >>, 9),
     b |-> <<Z, Z, Z, Q(32, 105), Q(1771561, 6289920), Q(243, 2560),
             Q(16807, 74880), Q(77, 1440), Q(11, 270)>>,
     c |-> <<Z, Q(1, 6), Q(1, 3), Half, Q(2, 11), Q(2, 3), Q(6, 7), Z, One>>]

TableauRK8 ==
    [S |-> 11,
     a |-> PadRows(<< <<>>,
                      <<Half>>,
                      <<Q(1, 4), Q(1, 4)>>,
                      <<Q(1, 7), QS(-7, -3, 98), QS(21, 5, 49)>>,
                      <<QS(11, 1, 84), Z, QS(18, 4, 63), QS(21, -1, 252)>>,
                      <<QS(5, 1, 48), Z, QS(9, 1, 36), QS(-231, 14, 360),
                        QS(63, -7, 80)>>,
                      <<QS(10, -1, 42), Z, QS(-432, 92, 315), QS(633, -145, 90),
                        QS(-504, 115, 70), QS(63, -13, 35)>>,
                      <<Q(1, 14), Z, Z, Z, QS(14, -3, 126), QS(13, -3, 63), Q(1, 9)>>,
                      <<Q(1, 32), Z, Z, Z, QS(91, -21, 576), Q(11, 72),
                        QS(-385, -75, 1152), QS(63, 13, 128)>>,
                      <<Q(1, 14), Z, Z, Z, Q(1, 9), QS(-733, -147, 2205),
                        QS(515, 111, 504), QS(-51, -11, 56), QS(132, 28, 245)>>,
                      <<Z, Z, Z, Z, QS(-42, 7, 18), QS(-18, 28, 45),
                        QS(-273, -53, 72), QS(301, 53, 72), QS(28, -28, 45),
                        QS(49, -7, 18)>> >>, 11),
     b |-> <<Q(1, 20), Z, Z, Z, Z, Z, Z, Q(49, 180), Q(16, 45), Q(49, 180), Q(1, 20)>>,
     c |-> <<Z, Half, Half, QS(7, 1, 14), QS(7, 1, 14), Half, QS(7, -1, 14),
             QS(7, -1, 14), Half, QS(7, 1, 14), One>>]

\* the tableau of a method the if / elif chain knows
KnownTableau(method_) ==
    CASE method_ = "RK1" -> TableauRK1
      [] method_ = "RK2" -> TableauRK2
      [] method_ = "RK3" -> TableauRK3
      [] method_ = "RK4" -> TableauRK4
      [] method_ = "RK5" -> TableauRK5
      [] method_ = "RK6" -> TableauRK6
      [] method_ = "RK7" -> TableauRK7
      [] method_ = "RK8" -> TableauRK8

\* S = 0 stands for the else branch: no tableau, the call returns at once
NoTableau == [S |-> 0, a |-> <<>>, b |-> <<>>, c |-> <<>>]

\* a stepper that falls back to Euler's method for a name it does not know
SelectTableauDefaultEuler(method_) ==
    IF method_ \in MethodNames THEN KnownTableau(method_) ELSE TableauRK1

\* lines 84-148: the tableau the if / elif chain selects
SelectTableau(method_) ==
    IF method_ \in MethodNames THEN KnownTableau(method_) ELSE NoTableau

(***************************************************************************)
(* The right-hand sides f(t, u) the callers pass: autonomous systems with  *)
(* decaying, growing and blowing-up solutions.                             *)
(***************************************************************************)
RhsNames == {"decay", "grow", "square"}

Rhs(f_, t_, x) ==
    CASE f_ = "decay" -> Vec([j \in 1..Len(x) |-> FNeg(x[j])])
      [] f_ = "grow" -> VAdd(x, x)
      [] f_ = "square" -> Vec([j \in 1..Len(x) |-> FMul(x[j], x[j])])

(***************************************************************************)
(* One time step of RungeKutta (the body of the loop over n).              *)
(***************************************************************************)
\* temp after the loop over j in range(i): the sum of a[i, j] * k[:, j]
RECURSIVE StageTemp(_, _, _, _)
StageTemp(arow, ks, j, acc) ==
    IF j > Len(ks) THEN acc
    ELSE StageTemp(arow, ks, j + 1, VAdd(acc, VScale(arow[j], ks[j])))

\* k[:, i] for the stage after the stages ks already computed
StageK(tab, dt_, f_, tn, un, ks) ==
    IF Len(ks) = 0
    THEN VScale(dt_, Rhs(f_, tn, un))
    ELSE LET row == Len(ks) + 1
             temp == StageTemp(tab.a[row], ks, 1, VZeros(Len(un)))
         IN VScale(dt_, Rhs(f_, QAdd(tn, QMul(tab.c[row], dt_)), VAdd(un, temp)))

\* k[:, 0], ..., k[:, S-1], each computed from the ones before it
RECURSIVE Stages(_, _, _, _, _, _)
Stages(tab, dt_, f_, tn, un, ks) ==
    IF Len(ks) = tab.S THEN ks
    ELSE Stages(tab, dt_, f_, tn, un, Append(ks, StageK(tab, dt_, f_, tn, un, ks)))

\* np.sum(b * k, axis=1)
RECURSIVE WeightedSum(_, _, _, _)
WeightedSum(b_, ks, j, acc) ==
    IF j > Len(ks) THEN acc
    ELSE WeightedSum(b_, ks, j + 1, VAdd(acc, VScale(b_[j], ks[j])))

\* the number of right-hand-side evaluations of one step
StepEvals(tab) == tab.S

\* the state after the step from un at time tn
RKStep(tab, dt_, f_, tn, un) ==
    VAdd(un, WeightedSum(tab.b, Stages(tab, dt_, f_, tn, un, <<>>), 1, VZeros(Len(un))))

\* num_time_steps = int((tspan[-1] - tspan[0]) / dt) + 1
NumTimeSteps(tspan_, dt_) == QDivInt(QSub(tspan_[2], tspan_[1]), dt_) + 1

\* tn = tspan[0] + n*dt
StepTime(tspan_, dt_, m) == QAdd(tspan_[1], QMul(QInt(m), dt_))

\* the value RungeKutta returns with dense == False for a known method: the
\* state after num_time_steps - 1 steps
RECURSIVE RKFinal(_, _, _, _, _, _)
RKFinal(tab, tspan_, dt_, f_, un, m) ==
    IF m >= NumTimeSteps(tspan_, dt_) - 1 THEN un
    ELSE RKFinal(tab, tspan_, dt_, f_, RKStep(tab, dt_, f_, StepTime(tspan_, dt_, m), un), m + 1)

\* the methods the two propagators bind
CoarseMethod == "RK2"
FineMethod == "RK4"

\* CoarseSolver / FineSolver with dense = False on a private copy of u0
CoarseSolver(tspan_, dt_, u0_, f_) ==
    RKFinal(SelectTableau(CoarseMethod), tspan_, dt_, f_, u0_, 0)

FineSolver(tspan_, dt_, u0_, f_) ==
    RKFinal(SelectTableau(FineMethod), tspan_, dt_, f_, u0_, 0)

(***************************************************************************)
(* State.                                                                  *)
(*   Stand-alone stepper call (RungeKutta, or CoarseSolver / FineSolver    *)
(*   called by a user): rk*.                                               *)
(***************************************************************************)
VARIABLES
    rkPc,        \* "idle", "select", "loop", "returned"
    rkArgs,      \* the call: entry point, tspan, dt, f, method, dense
    rkU0,        \* the contents of the array object the caller passed as u0
    rkU0Before,  \* what that array held when the call was made
    rkUn,        \* dense == True: the rows of the array un the call allocates
    rkN,         \* the loop index n
    rkEvals,     \* how many times f has been evaluated by the call
    rkPrinted,   \* what the call has printed
    rkRet        \* what the call returned

rkVars == <<rkPc, rkArgs, rkU0, rkU0Before, rkUn, rkN, rkEvals, rkPrinted, rkRet>>

\* initial-state vectors the callers pass
U0s == {<<2>>, <<8>>, <<30>>, <<2, -20>>}

\* dense as the caller passes it: True, False, or anything else
DenseVals == {"True", "False", "other"}

NoArgs == [entry |-> "none", tspan |-> <<Z, Z>>, dt |-> One, f |-> "decay",
           method |-> "none", dense |-> "other"]
NoRet == [kind |-> "pending", rows |-> <<>>]

rkIdle ==
    /\ rkPc = "idle"
    /\ rkArgs = NoArgs
    /\ rkU0 = <<>>
    /\ rkU0Before = <<>>
    /\ rkUn = <<>>
    /\ rkN = 0
    /\ rkEvals = 0
    /\ rkPrinted = <<>>
    /\ rkRet = NoRet

\* the method each entry point hands to RungeKutta
EntryMethods(entry) ==
    CASE entry = "CoarseSolver" -> {CoarseMethod}
      [] entry = "FineSolver" -> {FineMethod}
      [] OTHER -> MethodNames \cup {"RK9"}

\* a caller's call of one of the three functions
rkCalled ==
    \E entry \in {"RungeKutta", "CoarseSolver", "FineSolver"},
       dtq \in {One, Half}, steps \in 1..MaxRKSteps,
       rhs \in RhsNames, x0 \in U0s, dns \in DenseVals :
      \E m \in EntryMethods(entry) :
        /\ rkPc = "select"
        /\ rkArgs = [entry |-> entry, tspan |-> <<Z, QMul(QInt(steps), dtq)>>,
                     dt |-> dtq, f |-> rhs, method |-> m, dense |-> dns]
        /\ rkU0 = x0
        /\ rkU0Before = x0
        /\ rkUn = <<>>
        /\ rkN = 0
        /\ rkEvals = 0
        /\ rkPrinted = <<>>
        /\ rkRet = NoRet

\* lines 84-152 and the branch on dense: the tableau is selected and the loop
\* is set up, or the call prints an error and returns None
RKSelect ==
    /\ rkPc = "select"
    /\ LET tab == SelectTableau(rkArgs.method)
       IN IF tab.S = 0
          THEN /\ rkPrinted' = Append(rkPrinted, "Error: Please define the Runge Kutta method.")
               /\ rkRet' = [kind |-> "None", rows |-> <<>>]
               /\ rkPc' = "returned"
               /\ UNCHANGED rkUn
          ELSE IF rkArgs.dense = "False"
          THEN \* un = u0: un is the caller's array itself
               /\ rkPc' = "loop"
               /\ UNCHANGED <<rkUn, rkPrinted, rkRet>>
          ELSE IF rkArgs.dense = "True"
          THEN \* un = np.zeros(...); un[0,:] = u0
               /\ rkUn' = [r \in 1..NumTimeSteps(rkArgs.tspan, rkArgs.dt) |->
                             IF r = 1 THEN rkU0 ELSE VZeros(Len(rkU0))]
               /\ rkPc' = "loop"
               /\ UNCHANGED <<rkPrinted, rkRet>>
          ELSE /\ rkPrinted' = Append(rkPrinted, "Error: Please define dense = True or False.")
               /\ rkRet' = [kind |-> "None", rows |-> <<>>]
               /\ rkPc' = "returned"
               /\ UNCHANGED rkUn
    /\ UNCHANGED <<rkArgs, rkU0, rkU0Before, rkN, rkEvals>>

\* one pass of the loop over n
RKLoopStep ==
    /\ rkPc = "loop"
    /\ rkN < NumTimeSteps(rkArgs.tspan, rkArgs.dt) - 1
    /\ LET tab == SelectTableau(rkArgs.method)
           tn == StepTime(rkArgs.tspan, rkArgs.dt, rkN)
       IN /\ IF rkArgs.dense = "False"
             THEN \* un += np.sum(b * k, axis=1), in place in the caller's array
                  /\ rkU0' = RKStep(tab, rkArgs.dt, rkArgs.f, tn, rkU0)
                  /\ UNCHANGED rkUn
             ELSE \* un[n+1,:] = un[n,:] + np.sum(b * k, axis=1)
                  /\ rkUn' = [rkUn EXCEPT ![rkN + 2] =
                                RKStep(tab, rkArgs.dt, rkArgs.f, tn, rkUn[rkN + 1])]
                  /\ UNCHANGED rkU0
          /\ rkEvals' = rkEvals + StepEvals(tab)
    /\ rkN' = rkN + 1
    /\ UNCHANGED <<rkPc, rkArgs, rkU0Before, rkPrinted, rkRet>>

\* u = un; return u
RKReturn ==
    /\ rkPc = "loop"
    /\ rkN >= NumTimeSteps(rkArgs.tspan, rkArgs.dt) - 1
    /\ rkRet' = IF rkArgs.dense = "False"
                THEN [kind |-> "final", rows |-> <<rkU0>>]
                ELSE [kind |-> "dense", rows |-> rkUn]
    /\ rkPc' = "returned"
    /\ UNCHANGED <<rkArgs, rkU0, rkU0Before, rkUn, rkN, rkEvals, rkPrinted>>

RKNext == RKSelect \/ RKLoopStep \/ RKReturn

(***************************************************************************)
(*   One call of Parareal: its arguments, its locals under the names the   *)
(*   source gives them, the worker pool of the parallel fan-out, and what  *)
(*   the caller observes.                                                  *)
(***************************************************************************)
VARIABLES
    f, tspan, u0, N, Ng, Nf, epsilon, parallel,   \* the arguments
    pc,          \* where the call stands
    n,           \* dimension of the system
    I,           \* how many slices have converged
    u, uG, uF,   \* corrected / coarse / fine values: [boundary][iteration]
    err,         \* successive errors: [boundary][iteration - 1]
    timesG, timesF,  \* [slice][iteration]: 1 where a timing has been stored
    slices,      \* unconverged slices after each iteration
    wr,          \* history: which step last wrote each cell of u, uG and uF
    k, i, II, p, \* loop variables
    a,           \* the nan flag of the divergence check
    poolInputs,  \* parallel: the inputs list handed to starmap
    poolCores,   \* parallel: num_cores, the number of worker processes
    poolNext,    \* parallel: how many tasks have been handed to a worker
    poolRunning, \* parallel: the tasks being computed
    poolResults, \* parallel: the results that have come back, by task
    calls,       \* every propagator call made, in order
    printed,     \* what has been printed
    ret,         \* what the call returned or raised
    prev         \* what the previous call with the same arguments returned

argVars == <<f, tspan, u0, N, Ng, Nf, epsilon>>
tableVars == <<u, uG, uF, err, timesG, timesF, slices, wr>>
loopVars == <<k, i, II, p, a>>
poolVars == <<poolInputs, poolCores, poolNext, poolRunning, poolResults>>
parVars == <<argVars, parallel, pc, n, I, tableVars, loopVars, poolVars, calls,
             printed, ret, prev>>
vars == <<rkVars, parVars>>

\* tolerances the callers pass
Epsilons == {0, 1, 20, 50}
\* time intervals the callers pass
TimeSpans == {<<Z, QInt(2)>>}
\* parallel as the caller passes it: True, False, or anything else
ParallelVals == {"True", "False", "other"}

NoResult == [kind |-> "pending", exc |-> "", t |-> <<>>, u |-> <<>>, Iterations |-> 0,
             Errors |-> <<>>, FTimings |-> <<>>, GTimings |-> <<>>, Slices |-> <<>>]

\* the locals of a call that has not run yet
LocalsFresh ==
    /\ n = 0
    /\ I = 0
    /\ u = <<>> /\ uG = <<>> /\ uF = <<>> /\ err = <<>>
    /\ timesG = <<>> /\ timesF = <<>> /\ slices = <<>>
    /\ wr = <<>>
    /\ k = 0 /\ i = 0 /\ II = 0 /\ p = 0 /\ a = 0
    /\ poolInputs = <<>> /\ poolCores = 0 /\ poolNext = 0
    /\ poolRunning = {} /\ poolResults = <<>>
    /\ calls = <<>>
    /\ printed = <<>>
    /\ ret = NoResult

\* a caller's call of Parareal
parCalled ==
    /\ f \in RhsNames
    /\ tspan \in TimeSpans
    /\ u0 \in U0s
    /\ N \in 1..MaxN
    /\ Ng \in 1..MaxSteps
    /\ Nf \in 1..MaxSteps
    /\ epsilon \in Epsilons
    /\ parallel \in ParallelVals
    /\ pc = "start"
    /\ LocalsFresh
    /\ prev = NoResult

parIdle ==
    /\ f = "decay" /\ tspan = <<Z, One>> /\ u0 = <<0>>
    /\ N = 1 /\ Ng = 1 /\ Nf = 1 /\ epsilon = 0 /\ parallel = "False"
    /\ pc = "idle"
    /\ LocalsFresh
    /\ prev = NoResult

(***************************************************************************)
(* Lines 254-259: the quantities Parareal derives from its arguments.      *)
(***************************************************************************)
L == QSub(tspan[2], tspan[1])
L_sub == QMul(L, Q(1, N))
dT == QMul(L, Q(1, Ng))
dt == QMul(L, Q(1, Nf))
\* t = np.arange(tspan[0], tspan[1] + L_sub, L_sub)
t(j) == QAdd(tspan[1], QMul(QInt(j), L_sub))
mesh == [j \in 0..N |-> t(j)]

\* a check that forgets the fine step count
StepsValidCoarseOnly(sl, ng, nf) == ng % sl = 0

\* line 264: the step counts are multiples of each other
StepsValid(sl, ng, nf) == ng % sl = 0 /\ nf % ng = 0

NaNVec(dim) == Vec([j \in 1..dim |-> NaN])

\* a table whose row 0 holds u0 in the slot of iteration 0 only
FreshTableFirstSlot(sl, dim, x0) ==
    [r \in 0..sl |-> [c \in 0..sl |-> IF r = 0 /\ c = 0 THEN x0 ELSE NaNVec(dim)]]

\* lines 270-278: a table filled with nan, its row 0 set to u0 in every iteration
FreshTable(sl, dim, x0) ==
    [r \in 0..sl |-> [c \in 0..sl |-> IF r = 0 THEN x0 ELSE NaNVec(dim)]]

\* lines 270-278, as history: row 0 is seeded at set-up, every other cell of
\* a new table is unset
FreshTags(sl) ==
    [r \in 0..sl |-> [c \in 0..sl |-> IF r = 0 THEN "setup" ELSE "unset"]]

\* np.linalg.norm(x, ord=np.inf) of one row
NormInf(x) ==
    IF VHasNaN(x) THEN NaN
    ELSE CHOOSE m \in {Abs(x[j]) : j \in 1..Len(x)} : \A j \in 1..Len(x) : m >= Abs(x[j])

\* lines 322 and 331: range(I, N), the first slice of the fine stage
FineFirst(cnt) == cnt

\* a fine run started from the slot of the iteration under way
FineStartCurrent(tab, sl, kk) == tab[sl][kk]

\* lines 324 and 331: the fine run of slice sl starts from u[sl, dim_indices]
FineStart(tab, sl, kk) == tab[sl][kk - 1]

\* a coarse run that starts from the boundary it is about to compute
CoarseStartAhead(tab, sl, kk) == tab[sl + 1][kk]

\* a coarse run started from the previous iteration's value
CoarseStartPrevious(tab, sl, kk) == tab[sl][kk - 1]

\* line 355: the coarse run of slice sl starts from u[sl, dim_indices_next]
CoarseStart(tab, sl, kk) == tab[sl][kk]

\* an update that forgets to take the previous coarse value off
CorrectedNoSubtraction(gNew, fCur, gPrev) == VAdd(gNew, fCur)

\* line 361: the predictor-corrector value
Corrected(gNew, fCur, gPrev) == VSub(VAdd(gNew, fCur), gPrev)

\* a frontier that moves backward at a freeze
NextIBackward(cnt) == cnt - 1

\* lines 384 and 391: I = I + 1
NextI(cnt) == cnt + 1

\* a scan that puts the first unfrozen slice to the tolerance test as well
ScanFreezesTestsAll(pp, ii, e, eps) == FLess(e, eps)

\* a scan that has lost its tolerance test
ScanFreezesAlways(pp, ii, e, eps) == TRUE

\* a scan that tests with <= instead of <
ScanFreezesWithin(pp, ii, e, eps) == pp = ii \/ FLess(e, eps) \/ e = eps

\* lines 379-393: whether the scan freezes slice pp (II = ii, err[p, k-1] = e)
ScanFreezes(pp, ii, e, eps) == pp = ii \/ FLess(e, eps)

\* a freeze that fills only the next slot
CopyForwardOneSlot(row, src, from, sl) ==
    [c \in 0..sl |-> IF c = from THEN row[src] ELSE row[c]]

\* a row with the value of column src copied into the columns from..sl
CopyForward(row, src, from, sl) ==
    [c \in 0..sl |-> IF c >= from /\ c <= sl THEN row[src] ELSE row[c]]

\* what a freeze leaves in a slot it fills from a cell with history tag
Frozen(tag) == IF tag = "unset" THEN "unset" ELSE "freeze"

\* lines 380-382, 387-389, as history: the slots the freeze fills from column
\* src are marked; column src keeps its own writer
TagForward(row, src, from, sl) ==
    LET moved == CopyForward([row EXCEPT ![src] = Frozen(row[src])], src, from, sl)
    IN [c \in 0..sl |-> IF c = src THEN row[src] ELSE moved[c]]

\* line 335: num_cores = min(os.cpu_count()-1, N)
NumCores(cpus, sl) == IF cpus - 1 < sl THEN cpus - 1 ELSE sl

\* line 366: np.isnan(uG[:, dim_indices_next]).any()
CoarseHasNaN(tab, sl, col) == \E r \in 0..sl : VHasNaN(tab[r][col])

\* a loop that stops one value short of its range
LoopLastOneShort(v, hi) == v >= hi - 2

\* a loop variable over range(.., hi) holds the last value of the range
LoopLast(v, hi) == v >= hi - 1

\* an outer loop that runs on after every slice has converged
LoopEndsAtBudgetOnly(cnt, kk, sl) == LoopLast(kk, sl + 1)

\* lines 303, 398-399: the outer loop ends after iteration kk
LoopEnds(cnt, kk, sl) == cnt = sl \/ LoopLast(kk, sl + 1)

(***************************************************************************)
(* Parareal, step by step.                                                 *)
(***************************************************************************)
\* lines 250-284: the set-up and the check of the step counts
PValidate ==
    /\ pc = "start"
    /\ n' = Len(u0)
    /\ I' = 0
    /\ IF ~StepsValid(N, Ng, Nf)
       THEN /\ printed' = Append(printed, "Nf must be a multiple of Ng and Ng must be a multiple of N - change time steps!")
            /\ ret' = [NoResult EXCEPT !.kind = "None"]
            /\ pc' = "done"
            /\ UNCHANGED <<tableVars, i>>
       ELSE /\ u' = FreshTable(N, Len(u0), u0)
            /\ uG' = FreshTable(N, Len(u0), u0)
            /\ uF' = FreshTable(N, Len(u0), u0)
            /\ err' = [r \in 0..N |-> [c \in 0..(N - 1) |-> NaN]]
            /\ timesG' = [r \in 0..(N - 1) |-> [c \in 0..N |-> 0]]
            /\ timesF' = [r \in 0..(N - 1) |-> [c \in 0..N |-> 0]]
            /\ slices' = [c \in 0..N |-> IF c = 0 THEN N ELSE 0]
            /\ wr' = [u |-> FreshTags(N), uG |-> FreshTags(N), uF |-> FreshTags(N)]
            /\ i' = 0
            /\ pc' = "bootstrap"
            /\ UNCHANGED <<printed, ret>>
    /\ UNCHANGED <<argVars, parallel, k, II, p, a, poolVars, calls, prev, rkVars>>

\* lines 290-297: one pass of the coarse sweep of iteration 0
PBootstrap ==
    /\ pc = "bootstrap"
    /\ LET temp == CoarseSolver(<<t(i), t(i + 1)>>, dT, uG[i][0], f)
       IN /\ uG' = [uG EXCEPT ![i + 1][0] = temp]
          /\ u' = [u EXCEPT ![i + 1][0] = temp]
    /\ wr' = [wr EXCEPT !.uG[i + 1][0] = "bootstrap", !.u[i + 1][0] = "bootstrap"]
    /\ timesG' = [timesG EXCEPT ![i][0] = 1]
    /\ calls' = Append(calls, [s |-> "G", i |-> i, k |-> 0])
    /\ IF LoopLast(i, N)
       THEN pc' = "iter" /\ k' = 1 /\ UNCHANGED i
       ELSE i' = i + 1 /\ UNCHANGED <<pc, k>>
    /\ UNCHANGED <<argVars, parallel, n, I, uF, err, timesF, slices, II, p, a,
                   poolVars, printed, ret, prev, rkVars>>

\* lines 303-320 with parallel == False: iteration k starts its fine sweep
PIterSequential ==
    /\ pc = "iter"
    /\ parallel = "False"
    /\ printed' = Append(printed, "iteration")
    /\ i' = FineFirst(I)
    /\ pc' = "fine"
    /\ UNCHANGED <<argVars, parallel, n, I, tableVars, k, II, p, a, poolVars,
                   calls, ret, prev, rkVars>>

\* lines 322-327: one pass of the sequential fine sweep
PFineSequential ==
    /\ pc = "fine"
    /\ LET temp == FineSolver(<<t(i), t(i + 1)>>, dt, FineStart(u, i, k), f)
       IN uF' = [uF EXCEPT ![i + 1][k - 1] = temp]
    /\ wr' = [wr EXCEPT !.uF[i + 1][k - 1] = "fine"]
    /\ timesF' = [timesF EXCEPT ![i][k] = 1]
    /\ calls' = Append(calls, [s |-> "F", i |-> i, k |-> k])
    /\ IF LoopLast(i, N)
       THEN pc' = "corr" /\ i' = I
       ELSE i' = i + 1 /\ UNCHANGED pc
    /\ UNCHANGED <<argVars, parallel, n, I, u, uG, err, timesG, slices, k, II, p, a,
                   poolVars, printed, ret, prev, rkVars>>

\* lines 303-336 with parallel == True: iteration k builds the inputs and the
\* pool; multiprocessing.Pool raises ValueError for fewer than one process
PIterParallel ==
    /\ pc = "iter"
    /\ parallel = "True"
    /\ printed' = Append(printed, "iteration")
    /\ \E cpus \in 1..MaxCpu :
         LET cores == NumCores(cpus, N)
         IN /\ poolCores' = cores
            /\ poolInputs' = [j \in 1..(N - FineFirst(I)) |-> FineStart(u, FineFirst(I) + j - 1, k)]
            /\ poolNext' = 0
            /\ poolRunning' = {}
            /\ poolResults' = <<>>
            /\ IF cores < 1
               THEN /\ ret' = [NoResult EXCEPT !.kind = "raise", !.exc = "ValueError"]
                    /\ pc' = "raised"
               ELSE /\ pc' = "pool"
                    /\ UNCHANGED ret
    /\ UNCHANGED <<argVars, parallel, n, I, tableVars, loopVars, calls, prev, rkVars>>

\* line 337: an idle worker takes the next task of the inputs list
PoolStart ==
    /\ pc = "pool"
    /\ poolNext < Len(poolInputs)
    /\ Cardinality(poolRunning) < poolCores
    /\ poolNext' = poolNext + 1
    /\ poolRunning' = poolRunning \cup {poolNext + 1}
    /\ calls' = Append(calls, [s |-> "F", i |-> FineFirst(I) + poolNext, k |-> k])
    /\ UNCHANGED <<argVars, parallel, pc, n, I, tableVars, loopVars, poolInputs,
                   poolCores, poolResults, printed, ret, prev, rkVars>>

\* line 337: a worker finishes its task, FineSolver on the task's own input
PoolFinish ==
    /\ pc = "pool"
    /\ \E j \in poolRunning :
         LET sl == FineFirst(I) + j - 1
             res == FineSolver(<<t(sl), t(sl + 1)>>, dt, poolInputs[j], f)
         IN /\ poolResults' = [x \in (DOMAIN poolResults) \cup {j} |->
                                 IF x = j THEN res ELSE poolResults[x]]
            /\ poolRunning' = poolRunning \ {j}
    /\ UNCHANGED <<argVars, parallel, pc, n, I, tableVars, loopVars, poolInputs,
                   poolCores, poolNext, calls, printed, ret, prev, rkVars>>

\* lines 337-341: starmap returns the results in the order of the inputs and
\* they are stored; the timing goes to timesF[i, k] with i left by the last loop
PoolCollect ==
    /\ pc = "pool"
    /\ poolNext = Len(poolInputs)
    /\ poolRunning = {}
    /\ uF' = [r \in 0..N |->
                IF r >= I + 1 THEN [uF[r] EXCEPT ![k - 1] = poolResults[r - I]]
                ELSE uF[r]]
    /\ wr' = [wr EXCEPT !.uF = [r \in 0..N |->
                                  IF r >= I + 1 THEN [wr.uF[r] EXCEPT ![k - 1] = "fine"]
                                  ELSE wr.uF[r]]]
    /\ timesF' = [timesF EXCEPT ![i][k] = 1]
    /\ poolInputs' = <<>>
    /\ poolResults' = <<>>
    /\ poolNext' = 0
    /\ i' = I
    /\ pc' = "corr"
    /\ UNCHANGED <<argVars, parallel, n, I, u, uG, err, timesG, slices, k, II, p, a,
                   poolCores, poolRunning, calls, printed, ret, prev, rkVars>>

\* lines 343-345: parallel is neither True nor False
PIterBadFlag ==
    /\ pc = "iter"
    /\ parallel \notin {"True", "False"}
    /\ printed' = Append(Append(printed, "iteration"), "Error: Please define parallel = True or False.")
    /\ ret' = [NoResult EXCEPT !.kind = "None"]
    /\ pc' = "done"
    /\ UNCHANGED <<argVars, parallel, n, I, tableVars, loopVars, poolVars, calls,
                   prev, rkVars>>

\* lines 350-361: one pass of the coarse run and predictor-corrector update
PCorrect ==
    /\ pc = "corr"
    /\ LET temp == CoarseSolver(<<t(i), t(i + 1)>>, dT, CoarseStart(u, i, k), f)
       IN /\ uG' = [uG EXCEPT ![i + 1][k] = temp]
          /\ u' = [u EXCEPT ![i + 1][k] = Corrected(temp, uF[i + 1][k - 1], uG[i + 1][k - 1])]
    /\ wr' = [wr EXCEPT !.uG[i + 1][k] = "correction", !.u[i + 1][k] = "correction"]
    /\ timesG' = [timesG EXCEPT ![i][k] = 1]
    /\ calls' = Append(calls, [s |-> "G", i |-> i, k |-> k])
    /\ IF LoopLast(i, N)
       THEN pc' = "check" /\ UNCHANGED i
       ELSE i' = i + 1 /\ UNCHANGED pc
    /\ UNCHANGED <<argVars, parallel, n, I, uF, err, timesF, slices, k, II, p, a,
                   poolVars, printed, ret, prev, rkVars>>

\* lines 365-377: the divergence check, then the errors of iteration k and the
\* start of the convergence scan
PCheck ==
    /\ pc = "check"
    /\ IF CoarseHasNaN(uG, N, k)
       THEN /\ a' = NaN
            /\ pc' = "post"
            /\ UNCHANGED <<err, II, p>>
       ELSE /\ a' = 0
            /\ err' = [r \in 0..N |-> [err[r] EXCEPT ![k - 1] = NormInf(VSub(u[r][k], u[r][k - 1]))]]
            /\ II' = I
            /\ p' = I
            /\ pc' = "scan"
    /\ UNCHANGED <<argVars, parallel, n, I, u, uG, uF, timesG, timesF, slices, wr, k, i,
                   poolVars, calls, printed, ret, prev, rkVars>>

\* lines 378-393: one pass of the convergence scan
PScan ==
    /\ pc = "scan"
    /\ IF ScanFreezes(p, II, err[p][k - 1], epsilon)
       THEN /\ u' = [u EXCEPT ![p + 1] = CopyForward(u[p + 1], k, k + 1, N)]
            /\ uG' = [uG EXCEPT ![p + 1] = CopyForward(uG[p + 1], k, k + 1, N)]
            /\ uF' = [uF EXCEPT ![p + 1] = CopyForward(uF[p + 1], k - 1, k, N)]
            /\ wr' = [wr EXCEPT !.u[p + 1] = TagForward(@, k, k + 1, N),
                                !.uG[p + 1] = TagForward(@, k, k + 1, N),
                                !.uF[p + 1] = TagForward(@, k - 1, k, N)]
            /\ I' = NextI(I)
            /\ IF LoopLast(p, N)
               THEN pc' = "enditer" /\ UNCHANGED p
               ELSE p' = p + 1 /\ UNCHANGED pc
       ELSE /\ pc' = "enditer"
            /\ UNCHANGED <<u, uG, uF, wr, I, p>>
    /\ UNCHANGED <<argVars, parallel, n, err, timesG, timesF, slices, k, i, II, a,
                   poolVars, calls, printed, ret, prev, rkVars>>

\* lines 395-399 and the loop header: the iteration ends
PEndIter ==
    /\ pc = "enditer"
    /\ slices' = [slices EXCEPT ![k] = N - I]
    /\ IF LoopEnds(I, k, N)
       THEN pc' = "post" /\ UNCHANGED k
       ELSE pc' = "iter" /\ k' = k + 1
    /\ UNCHANGED <<argVars, parallel, n, I, u, uG, uF, wr, err, timesG, timesF, i, II, p, a,
                   poolVars, calls, printed, ret, prev, rkVars>>

\* an output that keeps the columns of iteration 0 as well
SolutionHistoryFromZero(tab, sl, kk) == [r \in 0..sl |-> [c \in 0..kk |-> tab[r][c]]]

\* line 402: u[:, n:n*(k + 1)], the columns of iterations 1..kk
SolutionHistory(tab, sl, kk) == [r \in 0..sl |-> [c \in 1..kk |-> tab[r][c]]]

\* lines 416-423: the slices of the diagnostics for an integer kk
Diagnostics(kk) ==
    [Iterations |-> kk,
     Errors |-> [r \in 0..N |-> [c \in 0..(kk - 1) |-> err[r][c]]],
     FTimings |-> [r \in 0..(N - 1) |-> [c \in 0..kk |-> timesF[r][c]]],
     GTimings |-> [r \in 0..(N - 1) |-> [c \in 0..kk |-> timesG[r][c]]],
     Slices |-> [c \in 0..kk |-> slices[c]]]

\* lines 402-427: the output is cut to the iterations done; after the
\* divergence break k is set to nan, and err[:, :k] with k = nan raises
\* TypeError (a slice index must be an integer)
PPost ==
    /\ pc = "post"
    /\ IF IsNaN(a)
       THEN /\ k' = NaN
            /\ printed' = Append(printed, "Parareal crashed...perhaps coarse solver is too coarse!")
            /\ ret' = [NoResult EXCEPT !.kind = "raise", !.exc = "TypeError"]
            /\ pc' = "raised"
       ELSE /\ UNCHANGED k
            /\ printed' = Append(printed, "Done.")
            /\ ret' = [kind |-> "return", exc |-> "", t |-> mesh,
                       u |-> SolutionHistory(u, N, k),
                       Iterations |-> Diagnostics(k).Iterations,
                       Errors |-> Diagnostics(k).Errors,
                       FTimings |-> Diagnostics(k).FTimings,
                       GTimings |-> Diagnostics(k).GTimings,
                       Slices |-> Diagnostics(k).Slices]
            /\ pc' = "done"
    /\ UNCHANGED <<argVars, parallel, n, I, tableVars, i, II, p, a, poolVars, calls,
                   prev, rkVars>>

\* the caller calls Parareal again with the same arguments and the other
\* value of parallel, keeping the first call's outcome
Rerun ==
    /\ pc \in {"done", "raised"}
    /\ parallel \in {"True", "False"}
    /\ prev = NoResult
    /\ prev' = ret
    /\ parallel' = IF parallel = "True" THEN "False" ELSE "True"
    /\ pc' = "start"
    /\ n' = 0 /\ I' = 0
    /\ u' = <<>> /\ uG' = <<>> /\ uF' = <<>> /\ err' = <<>>
    /\ timesG' = <<>> /\ timesF' = <<>> /\ slices' = <<>>
    /\ wr' = <<>>
    /\ k' = 0 /\ i' = 0 /\ II' = 0 /\ p' = 0 /\ a' = 0
    /\ poolInputs' = <<>> /\ poolCores' = 0 /\ poolNext' = 0
    /\ poolRunning' = {} /\ poolResults' = <<>>
    /\ calls' = <<>>
    /\ printed' = <<>>
    /\ ret' = NoResult
    /\ UNCHANGED <<argVars, rkVars>>

(***************************************************************************)
(* Specifications.                                                         *)
(***************************************************************************)
Init == parCalled /\ rkIdle

Next ==
    \/ PValidate
    \/ PBootstrap
    \/ PIterSequential
    \/ PFineSequential
    \/ PIterParallel
    \/ PoolStart
    \/ PoolFinish
    \/ PoolCollect
    \/ PIterBadFlag
    \/ PCorrect
    \/ PCheck
    \/ PScan
    \/ PEndIter
    \/ PPost

\* one call of Parareal
Spec == Init /\ [][Next]_vars

\* a call of Parareal followed by the same call in the other mode
NextTwice == Next \/ Rerun
SpecTwice == Init /\ [][NextTwice]_vars

\* a stand-alone call of RungeKutta, CoarseSolver or FineSolver
InitRK == parIdle /\ rkCalled
NextRK == RKNext /\ UNCHANGED parVars
SpecRK == InitRK /\ [][NextRK]_vars

(***************************************************************************)
(* Properties.                                                             *)
(***************************************************************************)
\* the call has ended, by return or by an exception
Terminal == pc \in {"done", "raised"}

\* the iterations k >= 1 that made a solver call
IterationsLogged == {calls[j].k : j \in DOMAIN calls} \ {0}

\* the number of FineSolver calls made in iteration j
FCallsIn(j) == Cardinality({x \in DOMAIN calls : calls[x].s = "F" /\ calls[x].k = j})

\* C1: a call whose Ng is not a multiple of N, or whose Nf is not a multiple
\* of Ng, never makes a CoarseSolver or FineSolver call, and once it has left
\* validation it has ended with None instead of (t, u, diagnostics)
C1_RejectedBeforeAnyCall ==
    (Ng % N /= 0 \/ Nf % Ng /= 0) =>
        /\ calls = <<>>
        /\ pc \in {"start", "done"}
        /\ pc = "done" => /\ ret.kind = "None"
                          /\ ret.t = <<>> /\ ret.u = <<>>
                          /\ printed /= <<>>

C1_Witness ==
    /\ pc = "done"
    /\ N = 3 /\ Ng = 4
    /\ ret.kind = "None"
    /\ calls = <<>>

\* the outcome of two calls agrees in everything but the timings
SameOutcome(r1, r2) ==
    /\ r1.kind = r2.kind
    /\ r1.u = r2.u
    /\ r1.Iterations = r2.Iterations
    /\ r1.Errors = r2.Errors
    /\ r1.Slices = r2.Slices

\* C2: the same call made with parallel = True and with parallel = False ends
\* with the same corrected solutions, the same frontier after every iteration
\* (Slices) and the same iteration count
C2_ModesAgree ==
    (Terminal /\ prev /= NoResult) => SameOutcome(prev, ret)

\* C3: within one run the frontier I never decreases and never exceeds N
C3_FrontierMonotone == [][I' >= I /\ I >= 0 /\ I' <= N]_vars

C3_Witness ==
    /\ pc = "done"
    /\ ret.kind = "return"
    /\ k = 2
    /\ slices[1] = 1
    /\ I = N
    /\ N = 3

\* the guard of some action holds: the call has a step to take
HasStep ==
    \/ pc \in {"start", "bootstrap", "iter", "fine", "corr", "check", "scan",
               "enditer", "post"}
    \/ /\ pc = "pool"
       /\ \/ poolNext < Len(poolInputs) /\ Cardinality(poolRunning) < poolCores
          \/ poolRunning /= {}
          \/ poolNext = Len(poolInputs) /\ poolRunning = {}

\* C4 as stated: the outer loop is left only after an iteration that made
\* I = N, or after iteration N
C4_StopsConvergedOrBudget ==
    pc = "post" => (I = N \/ k = N)

\* C4: every run with valid step counts ends, by return or by exception,
\* after at most N outer iterations; an iteration is started only while
\* I < N, and the loop is left after the first iteration with I = N, after
\* iteration N, or inside the iteration whose divergence check finds NaN
\* (or whose worker pool cannot be created)
C4_LoopBounded ==
    (Ng % N = 0 /\ Nf % Ng = 0) =>
        /\ pc \in {"iter", "fine", "pool", "corr", "check", "scan", "enditer", "post"}
             => (IsNaN(k) \/ k \in 1..N)
        /\ pc \in {"iter", "fine", "pool", "corr", "check"} => I < N
        /\ pc = "post" => (I = N \/ k = N \/ IsNaN(a))
        /\ (pc = "raised" /\ ~IsNaN(a)) => (ret.exc = "ValueError" /\ k \in 1..N /\ I < N)
        /\ pc \in {"fine", "corr"} => i \in I..(N - 1)
        /\ pc = "scan" => p \in II..(N - 1)
        /\ Len(calls) <= N + 2 * N * N
        /\ Terminal \/ HasStep

C4_Witness ==
    /\ pc = "done"
    /\ ret.kind = "return"
    /\ N = 3
    /\ k = 2
    /\ I = N

\* the fine propagator applied r times from the initial condition
RECURSIVE FineOnly(_)
FineOnly(r) ==
    IF r = 0 THEN u0
    ELSE FineSolver(<<t(r - 1), t(r)>>, dt, FineOnly(r - 1), f)

\* no value of the run, and none of the fine-only integration, has overflowed
AllFinite ==
    \A r \in 0..N : \A x \in 1..Len(u0) :
        /\ IsFinite(FineOnly(r)[x])
        /\ \A c \in 0..k : IsFinite(u[r][c][x]) /\ IsFinite(uG[r][c][x])

\* C5 as stated: at the end of a run with I = N every boundary value is
\* within epsilon of the fine-only integration (here even with every value
\* finite)
C5_MatchesFineOnly ==
    (pc = "done" /\ ret.kind = "return" /\ I = N /\ AllFinite) =>
        \A r \in 0..N :
            LET d == NormInf(VSub(u[r][k], FineOnly(r)))
            IN FLess(d, epsilon) \/ d = epsilon

\* the iteration whose scan froze slice r, read off the recorded frontiers
FrozenAt(r) ==
    CHOOSE j \in 1..k : /\ N - slices[j] > r
                        /\ \A j2 \in 1..(j - 1) : N - slices[j2] <= r

\* the frontier at the start of iteration j
FrontierAt(j) == N - slices[j - 1]

\* C5: at the end of a run with I = N, boundary 0 holds u0 and boundary r + 1
\* holds G(x) + F(x') - G(x') of the iteration that froze slice r, where x
\* is the final value at boundary r and x' that boundary's value one
\* iteration earlier: x' = x if slice r was frozen as the frontier slice,
\* and |x - x'| < epsilon otherwise
C5_FrozenValues ==
    (pc = "done" /\ ret.kind = "return" /\ I = N) =>
        /\ u[0][k] = u0
        /\ \A r \in 0..(N - 1) :
             LET j == FrozenAt(r)
                 x == u[r][k]
                 xp == u[r][j - 1]
                 ts == <<t(r), t(r + 1)>>
             IN /\ u[r + 1][k] = VSub(VAdd(CoarseSolver(ts, dT, x, f),
                                           FineSolver(ts, dt, xp, f)),
                                      CoarseSolver(ts, dT, xp, f))
                /\ IF FrontierAt(j) = r
                   THEN xp = x
                   ELSE FLess(NormInf(VSub(x, xp)), epsilon)

C5_Witness ==
    /\ pc = "done"
    /\ ret.kind = "return"
    /\ I = N
    /\ N = 2
    /\ k = 1
    /\ epsilon > 0
    /\ u[1][1] /= u[1][0]
    /\ u[2][k] /= FineOnly(2)

\* C6: a run aborted by the divergence check still returns, with an
\* iteration count that covers the iterations completed before the abort
C6_AbortStillReturns ==
    (Terminal /\ IsNaN(a)) =>
        /\ ret.kind = "return"
        /\ ret.Iterations = Cardinality(IterationsLogged) - 1

\* C7: on a normal return after k performed iterations the solution history
\* holds exactly the iterates of iterations 1..k, Iterations = k, Errors has
\* k columns, the timings and Slices have k + 1 entries, Slices[0] = N and
\* Slices[j] = N - I as it stood after iteration j
C7_OutputsCutToPerformed ==
    (pc = "done" /\ ret.kind = "return") =>
        LET kk == Cardinality(IterationsLogged)
        IN /\ ret.Iterations = kk
           /\ DOMAIN ret.u = 0..N
           /\ \A r \in 0..N :
                /\ DOMAIN ret.u[r] = 1..kk
                /\ \A c \in 1..kk : ret.u[r][c] = u[r][c]
                /\ DOMAIN ret.Errors[r] = 0..(kk - 1)
                /\ \A c \in 0..(kk - 1) : ret.Errors[r][c] = err[r][c]
           /\ \A r \in 0..(N - 1) :
                /\ DOMAIN ret.FTimings[r] = 0..kk
                /\ DOMAIN ret.GTimings[r] = 0..kk
           /\ DOMAIN ret.Slices = 0..kk
           /\ ret.Slices[0] = N
           /\ ret.Slices[kk] = N - I
           /\ \A j \in 1..(kk - 1) : ret.Slices[j] = FCallsIn(j + 1)

C7_Witness ==
    /\ pc = "done"
    /\ ret.kind = "return"
    /\ N = 3
    /\ ret.Iterations = 2
    /\ ret.Slices[1] = 2
    /\ ret.Slices[2] = 0

\* C8: after a call of RungeKutta, CoarseSolver or FineSolver the caller's
\* u0 holds the value it had before the call
C8_U0Unmodified ==
    rkPc = "returned" => rkU0 = rkU0Before

\* C9: RungeKutta with a method name other than RK1..RK8 prints an error and
\* returns None, with no evaluation of f and no step taken
C9_UnknownMethodRejected ==
    (rkPc /= "idle" /\ rkArgs.method \notin MethodNames) =>
        /\ rkEvals = 0
        /\ rkN = 0
        /\ rkU0 = rkU0Before
        /\ rkPc \in {"select", "returned"}
        /\ rkPc = "returned" => /\ rkRet = [kind |-> "None", rows |-> <<>>]
                                /\ rkPrinted = <<"Error: Please define the Runge Kutta method.">>

C9_Witness ==
    /\ rkPc = "returned"
    /\ rkArgs.method = "RK9"
    /\ rkRet.kind = "None"
    /\ rkEvals = 0

\* C10 as stated: a scan step freezes slice p only if the error recorded for
\* iteration k at the boundary being frozen, p + 1, is below tolerance
C10_FrozenBoundaryBelowTolerance ==
    [][(pc = "scan" /\ I' = I + 1) => FLess(err[p + 1][k - 1], epsilon)]_vars

\* C10: a scan step freezes slice p (boundary p + 1 copied forward, I
\* advanced by one) only if p is the first unfrozen slice II, or the error
\* recorded for iteration k at the slice's left boundary p is below
\* tolerance; that error is the supremum-norm difference of the iteration-k
\* and iteration-(k-1) values at boundary p
C10_FreezeCondition ==
    [][(pc = "scan" /\ I' = I + 1) =>
          /\ p = II \/ FLess(err[p][k - 1], epsilon)
          /\ err[p][k - 1] = NormInf(VSub(u[p][k], u[p][k - 1]))
          /\ \A c \in (k + 1)..N : u'[p + 1][c] = u[p + 1][k]
          /\ I = p]_vars

C10_Witness ==
    /\ pc = "enditer"
    /\ I = II + 2
    /\ FLess(err[I - 1][k - 1], epsilon)
    /\ ~FLess(err[I][k - 1], epsilon)
    /\ IsFinite(err[I][k - 1])

\* boundary r has been frozen by iteration kk: its later slots hold copies
RowFilled(tab, r, kk) == \A c \in (kk + 1)..N : tab[r][c] = tab[r][kk]

\* boundary r has not been frozen: its later slots are still unset
RowUnset(tab, r, kk) == \A c \in (kk + 1)..N : tab[r][c] = NaNVec(Len(u0))

\* after iteration kk the frozen boundaries are exactly 1..I
FrozenPrefix(kk) ==
    /\ \A r \in 1..I : RowFilled(u, r, kk) /\ RowFilled(uG, r, kk)
    /\ \A r \in (I + 1)..N : RowUnset(u, r, kk) /\ RowUnset(uG, r, kk)

\* C11: a scan step freezes only the slice at the frontier (p = I); at the
\* first slice beyond II that fails the tolerance test the scan ends without
\* freezing anything more, and when the scan has ended the frozen boundaries
\* are exactly 1..I, whatever the errors of the slices further on
C11_ContiguousPrefix ==
    [][pc = "scan" =>
          /\ p = I
          /\ I' \in {I, I + 1}
          /\ (p /= II /\ ~FLess(err[p][k - 1], epsilon)) => (I' = I /\ pc' = "enditer")
          /\ I' = I => (pc' = "enditer" /\ u' = u /\ uG' = uG /\ uF' = uF)
          /\ pc' = "enditer" => FrozenPrefix(k)']_vars

C11_Witness ==
    /\ pc = "enditer"
    /\ k < N
    /\ I + 1 < N
    /\ ~FLess(err[I][k - 1], epsilon)
    /\ FLess(err[I + 1][k - 1], epsilon)
    /\ RowUnset(u, I + 2, k)
    /\ RowFilled(u, I, k)

\* G(u[sl, kk]) + F(u[sl, kk - 1]) - G(u[sl, kk - 1]) over slice sl
PredictorCorrector(sl, kk) ==
    LET ts == <<t(sl), t(sl + 1)>>
    IN VSub(VAdd(CoarseSolver(ts, dT, u[sl][kk], f),
                 FineSolver(ts, dt, u[sl][kk - 1], f)),
            CoarseSolver(ts, dT, u[sl][kk - 1], f))

\* C12: during the correction loop of iteration k every slice sl in [I, N)
\* has its fine slot F(u[sl, k-1]) and its previous coarse slot
\* G(u[sl, k-1]) in place, and every slice already handled holds
\* G(u[sl, k]) + F(u[sl, k-1]) - G(u[sl, k-1]) at boundary sl + 1, with the
\* coarse slot G(u[sl, k]) beside it, evaluated on the table as it stands now:
\* u[sl, k] was final when it was read; once the loop is over this holds for
\* all of [I, N)
C12_PredictorCorrector ==
    pc \in {"corr", "check"} =>
        /\ i \in I..(N - 1)
        /\ \A sl \in I..(N - 1) :
             LET ts == <<t(sl), t(sl + 1)>>
             IN /\ uF[sl + 1][k - 1] = FineSolver(ts, dt, u[sl][k - 1], f)
                /\ uG[sl + 1][k - 1] = CoarseSolver(ts, dT, u[sl][k - 1], f)
                /\ (sl < i \/ pc = "check") =>
                     /\ uG[sl + 1][k] = CoarseSolver(ts, dT, u[sl][k], f)
                     /\ u[sl + 1][k] = PredictorCorrector(sl, k)

C12_Witness ==
    /\ pc = "check"
    /\ k = 2
    /\ N = 3
    /\ I = 1
    /\ u[2][2] /= u[2][1]
    /\ u[3][2] /= u[3][1]
    /\ u[3][2] = PredictorCorrector(2, 2)

\* C13: every coarse call of an iteration kk >= 1 comes after the fine calls
\* of all slices that were unfrozen at the start of kk, no fine call of kk
\* comes after a coarse call of kk, and while the correction loop runs no
\* worker is busy, no result is waiting to be stored and every fine slot of
\* the iteration holds its result
C13_FineBeforeCorrection ==
    /\ \A x \in DOMAIN calls :
         (calls[x].s = "G" /\ calls[x].k >= 1) =>
             /\ \A sl \in FrontierAt(calls[x].k)..(N - 1) :
                  \E y \in 1..(x - 1) :
                      calls[y] = [s |-> "F", i |-> sl, k |-> calls[x].k]
             /\ \A y \in (x + 1)..Len(calls) :
                  ~(calls[y].s = "F" /\ calls[y].k = calls[x].k)
    /\ pc \in {"corr", "check", "scan", "enditer"} =>
         /\ poolRunning = {}
         /\ poolResults = <<>>
         /\ poolInputs = <<>>
         /\ FCallsIn(k) = N - FrontierAt(k)
    /\ pc = "corr" =>
         \A sl \in I..(N - 1) :
             uF[sl + 1][k - 1] = FineSolver(<<t(sl), t(sl + 1)>>, dt, u[sl][k - 1], f)

C13_Witness ==
    /\ pc = "corr"
    /\ parallel = "True"
    /\ poolCores = 2
    /\ N = 3
    /\ k = 2
    /\ I = 1
    /\ i = 2
    /\ FCallsIn(2) = 2

\* the cells of a table other than the fine slot of boundary sl + 1 are the same
SameButSlot(tab1, tab2, sl, kk) ==
    \A r \in 0..N : \A c \in 0..N : (r = sl + 1 /\ c = kk - 1) \/ tab1[r][c] = tab2[r][c]

\* C14: while the fan-out of iteration k runs, the task of slice sl was given
\* u[sl, k-1] and nothing else, its result is F(u[sl, k-1]) whatever the order
\* in which the workers finish, tasks and fine slots I+1..N correspond one to
\* one, and no step of the fan-out changes a corrected or coarse cell or a
\* fine cell outside the slots of boundaries I+1..N of iteration k
C14_FanOutDisjoint ==
    /\ [](pc = "pool" =>
            /\ Len(poolInputs) = N - I
            /\ poolRunning \cap DOMAIN poolResults = {}
            /\ \A j \in 1..(N - I) : poolInputs[j] = u[I + j - 1][k - 1]
            /\ \A j \in DOMAIN poolResults :
                 /\ j \in 1..poolNext
                 /\ poolResults[j] = FineSolver(<<t(I + j - 1), t(I + j)>>, dt,
                                                u[I + j - 1][k - 1], f))
    /\ [][(pc \in {"fine", "pool"} =>
            /\ u' = u
            /\ uG' = uG
            /\ pc = "fine" => SameButSlot(uF', uF, i, k)
            /\ pc = "pool" =>
                 /\ \A r \in 0..I : uF'[r] = uF[r]
                 /\ \A r \in (I + 1)..N : \A c \in 0..N :
                      c = k - 1 \/ uF'[r][c] = uF[r][c]
                 /\ pc' = "corr" =>
                      \A r \in (I + 1)..N : uF'[r][k - 1] = poolResults[r - I])]_vars

\* the second task has come back while the first is still being computed
C14_Witness ==
    /\ pc = "pool"
    /\ N - I >= 2
    /\ DOMAIN poolResults = {2}
    /\ 1 \in poolRunning
    /\ poolInputs[1] /= poolInputs[2]

\* the last iteration whose scan has acted on the tables
LastScanned == IF pc \in {"scan", "enditer"} THEN k ELSE k - 1

\* C15: while the iterations run, every frozen boundary r in 1..I holds, in
\* each slot from the last scanned iteration on, a copy of its corrected and
\* of its coarse value of that iteration, and in each fine slot from the one
\* before on a copy of that fine value; and no step of a fine stage, of a
\* correction pass or of a scan changes a corrected, coarse or fine cell of a
\* boundary that is frozen when the step is taken
C15_FrozenStaysFrozen ==
    /\ [](pc \in {"iter", "fine", "pool", "corr", "check", "scan", "enditer"} =>
            \A r \in 1..I :
                /\ RowFilled(u, r, LastScanned)
                /\ RowFilled(uG, r, LastScanned)
                /\ \A c \in LastScanned..N : uF[r][c] = uF[r][LastScanned - 1])
    /\ [][(pc \in {"iter", "fine", "pool", "corr", "check", "scan", "enditer", "post"} =>
            \A r \in 0..I : u'[r] = u[r] /\ uG'[r] = uG[r] /\ uF'[r] = uF[r])]_vars

C15_Witness ==
    /\ pc = "check"
    /\ N = 3
    /\ k = 2
    /\ I = 1
    /\ u[1][1] /= u[1][0]
    /\ u[1][2] = u[1][1]
    /\ u[1][3] = u[1][1]
    /\ u[2][2] /= u[2][1]

\* the fine stage of iteration j has run to its end
FineStageDone(j) ==
    /\ pc \in {"iter", "fine", "pool", "corr", "check", "scan", "enditer", "post"}
       \/ (pc = "done" /\ ret.kind = "return")
    /\ j < k \/ (j = k /\ pc \notin {"iter", "fine", "pool"})

\* whenever the fine stage of an iteration has run to its end: a fine call of
\* iteration j is made for a slice that was unfrozen at the start of j, at
\* most once, and the finished stage has made one call for each of these
\* slices, Slices[j-1] in all, fewer than the stage of iteration j - 1
FineCallsWhenStageRuns ==
    /\ \A x \in DOMAIN calls :
         calls[x].s = "F" =>
             /\ calls[x].i \in FrontierAt(calls[x].k)..(N - 1)
             /\ \A y \in DOMAIN calls : calls[y] = calls[x] => y = x
    /\ \A j \in 1..N :
         FineStageDone(j) =>
             /\ \A sl \in FrontierAt(j)..(N - 1) :
                  \E x \in DOMAIN calls : calls[x] = [s |-> "F", i |-> sl, k |-> j]
             /\ FCallsIn(j) = slices[j - 1]
             /\ j >= 2 => FCallsIn(j) < FCallsIn(j - 1)

\* the iterations of the outer loop that have been entered
IterationsStarted == Cardinality({x \in DOMAIN printed : printed[x] = "iteration"})

\* C16: when a call with valid arguments has ended, every iteration j it
\* entered has made exactly one fine call for each slice that was unfrozen at
\* the start of j, Slices[j-1] calls in all, and fewer than iteration j - 1
C16_FineCallsEveryIteration ==
    (Terminal /\ parallel \in {"True", "False"} /\ Ng % N = 0 /\ Nf % Ng = 0) =>
        \A j \in 1..IterationsStarted :
            /\ \A sl \in FrontierAt(j)..(N - 1) :
                 Cardinality({x \in DOMAIN calls :
                                calls[x] = [s |-> "F", i |-> sl, k |-> j]}) = 1
            /\ FCallsIn(j) = slices[j - 1]
            /\ j >= 2 => FCallsIn(j) < FCallsIn(j - 1)

\* C17: from the moment the tables exist, the corrected, coarse and fine
\* values at boundary 0 are u0 in the slot of every iteration 0..N
C17_BoundaryZeroIsU0 ==
    (pc /= "start" /\ Ng % N = 0 /\ Nf % Ng = 0) =>
        /\ DOMAIN u[0] = 0..N
        /\ \A c \in 0..N : u[0][c] = u0 /\ uG[0][c] = u0 /\ uF[0][c] = u0

C17_Witness ==
    /\ pc = "done"
    /\ ret.kind = "return"
    /\ N = 3
    /\ k = 3
    /\ u[0][3] = u0 /\ uG[0][3] = u0 /\ uF[0][3] = u0
    /\ ret.u[0][3] = u0
    /\ u[1][3] /= u0

\* the coarse results of the correction pass of the iteration under way
CoarsePassFinite ==
    \A r \in (II + 1)..N : \A x \in 1..Len(u0) : IsFinite(uG[r][k][x])

\* C18: the convergence test of an iteration is run only if every coarse
\* result of its correction pass is finite (neither nan nor +-inf)
C18_NonFiniteAborts ==
    pc \in {"scan", "enditer"} => CoarsePassFinite

\* C19: the pool asked for by an iteration's fan-out has at least one worker
\* and no more workers than there are unconverged slices at that moment
C19_PoolSizeBounded ==
    (pc = "pool" \/ (pc = "raised" /\ ret.exc = "ValueError")) =>
        /\ poolCores >= 1
        /\ poolCores <= N - I

\* C20: an iteration that reaches its scan freezes at least one slice, so
\* I >= k once the scan of iteration k is over and I >= k - 1 before; a call
\* that leaves the loop without the nan flag has I = N, and a call that
\* returns has I = N and a last Slices entry of 0: the loop is never left at
\* k = N with I < N
C20_FrontierKeepsPace ==
    /\ pc \in {"iter", "fine", "pool", "corr", "check", "scan"} => I >= k - 1
    /\ pc = "enditer" => (I >= k /\ I > II)
    /\ (pc = "post" /\ ~IsNaN(a)) => (I = N /\ I >= k)
    /\ (pc = "done" /\ ret.kind = "return") =>
         /\ I = N
         /\ ret.Slices[ret.Iterations] = 0
         /\ \A j \in 1..ret.Iterations : ret.Slices[j] <= N - j

C20_Witness ==
    /\ pc = "done"
    /\ ret.kind = "return"
    /\ N = 3
    /\ epsilon = 0
    /\ ret.Iterations = 3
    /\ ret.Slices = [c \in 0..3 |-> 3 - c]

(***************************************************************************)
(* C21: no propagator call and no predictor-corrector update reads a cell  *)
(* of u, uG or uF that still holds the nan fill of the set-up.  wr records *)
(* the step that last wrote each cell; a read cell holds u0 seeded into    *)
(* boundary 0 at set-up, or a value written earlier by the bootstrap, a    *)
(* fine stage, a correction pass or a freeze copy-forward.  The cells are  *)
(* u[i, k-1] read by each fine call (sequential, or as the inputs list of  *)
(* the pool), uG[i, 0] read by the bootstrap, u[i, k] read by the coarse   *)
(* run, and uF[i+1, k-1] and uG[i+1, k-1] read by the correction.          *)
(***************************************************************************)
Writers == {"setup", "bootstrap", "fine", "correction", "freeze"}

\* the history agrees with the tables: a cell marked unset holds the nan fill
UnsetCellsHoldFill ==
    wr # <<>> =>
      \A r \in 0..N : \A c \in 0..N :
        /\ wr.u[r][c] = "unset" => u[r][c] = NaNVec(Len(u0))
        /\ wr.uG[r][c] = "unset" => uG[r][c] = NaNVec(Len(u0))
        /\ wr.uF[r][c] = "unset" => uF[r][c] = NaNVec(Len(u0))

C21_NoUnsetRead ==
    /\ UnsetCellsHoldFill
    /\ pc = "bootstrap" => wr.uG[i][0] \in Writers
    /\ pc = "fine" => FineStart(wr.u, i, k) \in Writers
    /\ (pc = "iter" /\ parallel = "True") =>
          \A j \in 1..(N - FineFirst(I)) :
            FineStart(wr.u, FineFirst(I) + j - 1, k) \in Writers
    /\ pc = "corr" =>
          /\ CoarseStart(wr.u, i, k) \in Writers
          /\ wr.uF[i + 1][k - 1] \in Writers
          /\ wr.uG[i + 1][k - 1] \in Writers

\* the correction of iteration 2 is about to run on a slice past the frontier:
\* it reads a cell of the previous correction, one of this iteration's fine
\* stage and one this pass has just written
C21_Witness ==
    /\ pc = "corr" /\ k = 2 /\ i > I
    /\ CoarseStart(wr.u, i, k) = "correction"
    /\ wr.uF[i + 1][k - 1] = "fine"
    /\ wr.uG[i + 1][k - 1] = "correction"
    /\ wr.u[I][k] = "freeze"
    /\ wr.u[i + 1][k] = "unset"

====
